---- MODULE Spec2Model ----
(***************************************************************************)
(* DockerCommandBuilder and the three forwarders of src/src/command.rs.    *)
(*                                                                         *)
(* A Rust String is modelled as a sequence of one-character strings, so    *)
(* that path resolution, comma and whitespace splitting and format! are    *)
(* computed character by character, as the library computes them.          *)
(***************************************************************************)
EXTENDS Integers, Sequences, FiniteSets, TLC

VARIABLES
    builder,    \* the DockerCommandBuilder flowing through the composition chain
    ctor,       \* the (image, shell) given to DockerCommandBuilder::new
    env,        \* the host environment: SSH_AUTH_SOCK and TMUX
    dind,       \* the dind::Dind handle
    last,       \* the last call: its name, result, input builder and what it called
    ran,        \* whether run has been called on the builder
    added,      \* calls of add_volume / add_environment / add_docker_switch by the caller
    applied     \* successful applications of each forwarder

vars == <<builder, ctor, env, dind, last, ran, added, applied>>

----------------------------------------------------------------------------
(* Literals of command.rs *)

\* "run"
ArgRun == <<"r", "u", "n">>
\* "--rm"
ArgRm == <<"-", "-", "r", "m">>
\* "-it"
ArgIt == <<"-", "i", "t">>
\* "-v"
SwitchV == <<"-", "v">>
\* "-e"
SwitchE == <<"-", "e">>
\* "-c"
ArgC == <<"-", "c">>
\* "SSH_AUTH_SOCK"
SshAuthSockName == <<"S", "S", "H", "_", "A", "U", "T", "H", "_", "S", "O", "C", "K">>
\* "TMUX_SOCKET"
TmuxSocketName == <<"T", "M", "U", "X", "_", "S", "O", "C", "K", "E", "T">>
\* "/run/tmux/"
RunTmuxSlash == <<"/", "r", "u", "n", "/", "t", "m", "u", "x", "/">>
\* "/run/tmux"
RunTmux == <<"/", "r", "u", "n", "/", "t", "m", "u", "x">>
\* "DOCKER_HOST"
DockerHostName == <<"D", "O", "C", "K", "E", "R", "_", "H", "O", "S", "T">>
\* "tcp://floki-docker:2375"
DockerHostValue == <<"t", "c", "p", ":", "/", "/", "f", "l", "o", "k", "i", "-", "d", "o", "c", "k", "e", "r", ":", "2", "3", "7", "5">>
\* "--link "
LinkPrefix == <<"-", "-", "l", "i", "n", "k", " ">>
\* ":floki-docker"
LinkSuffix == <<":", "f", "l", "o", "k", "i", "-", "d", "o", "c", "k", "e", "r">>

----------------------------------------------------------------------------
(* Option<T> *)

None == [some |-> FALSE, val |-> <<>>]

Some(v) == [some |-> TRUE, val |-> v]

MaxOf(S) == CHOOSE x \in S : \A y \in S : y <= x

MinOf(S) == CHOOSE x \in S : \A y \in S : x <= y

----------------------------------------------------------------------------
(* std::path::Path on Unix: components are parsed from the back of the     *)
(* byte string; empty components and "." are skipped, the result of        *)
(* parent() is a slice of the original string.                             *)

is_sep_byte(b) == b = "/"

has_physical_root(path) == Len(path) > 0 /\ is_sep_byte(path[1])

include_cur_dir(path) ==
    /\ ~has_physical_root(path)
    /\ Len(path) > 0
    /\ path[1] = "."
    /\ (Len(path) = 1 \/ is_sep_byte(path[2]))

len_before_body(path) ==
    (IF has_physical_root(path) THEN 1 ELSE 0) + (IF include_cur_dir(path) THEN 1 ELSE 0)

NoComponent == [kind |-> "None", name |-> <<>>]

RootDir == [kind |-> "RootDir", name |-> <<"/">>]

CurDir == [kind |-> "CurDir", name |-> <<".">>]

parse_single_component(comp) ==
    IF comp = <<".">> THEN NoComponent
    ELSE IF comp = <<".", ".">> THEN [kind |-> "ParentDir", name |-> comp]
    ELSE IF comp = <<>> THEN NoComponent
    ELSE [kind |-> "Normal", name |-> comp]

parse_next_component_back(path) ==
    LET start == len_before_body(path)
        seps == {i \in (start + 1)..Len(path) : is_sep_byte(path[i])}
        extra == IF seps = {} THEN 0 ELSE 1
        comp == IF seps = {} THEN SubSeq(path, start + 1, Len(path))
                ELSE SubSeq(path, MaxOf(seps) + 1, Len(path))
    IN  [size |-> Len(comp) + extra, comp |-> parse_single_component(comp)]

RECURSIVE next_back(_)
next_back(path) ==
    IF Len(path) > len_before_body(path)
    THEN LET p == parse_next_component_back(path)
             rest == SubSeq(path, 1, Len(path) - p.size)
         IN  IF p.comp.kind /= "None"
             THEN [comp |-> p.comp, path |-> rest, back |-> "Body"]
             ELSE next_back(rest)
    ELSE IF has_physical_root(path)
    THEN [comp |-> RootDir, path |-> SubSeq(path, 1, Len(path) - 1), back |-> "Prefix"]
    ELSE IF include_cur_dir(path)
    THEN [comp |-> CurDir, path |-> SubSeq(path, 1, Len(path) - 1), back |-> "Prefix"]
    ELSE [comp |-> NoComponent, path |-> path, back |-> "Done"]

RECURSIVE trim_right(_)
trim_right(path) ==
    IF Len(path) > len_before_body(path)
    THEN LET p == parse_next_component_back(path)
         IN  IF p.comp.kind /= "None" THEN path
             ELSE trim_right(SubSeq(path, 1, Len(path) - p.size))
    ELSE path

as_path(comps) == IF comps.back = "Body" THEN trim_right(comps.path) ELSE comps.path

parent(path) ==
    LET comps == next_back(path)
    IN  IF comps.comp.kind \in {"Normal", "CurDir", "ParentDir"}
        THEN Some(as_path(comps))
        ELSE None

file_name(path) ==
    LET comps == next_back(path)
    IN  IF comps.comp.kind = "Normal" THEN Some(comps.comp.name) ELSE None

----------------------------------------------------------------------------
(* str::split(','), Vec::get(0), str::split_whitespace, format! *)

RECURSIVE split_comma(_)
split_comma(s) ==
    LET commas == {i \in 1..Len(s) : s[i] = ","}
    IN  IF commas = {} THEN <<s>>
        ELSE <<SubSeq(s, 1, MinOf(commas) - 1)>>
                 \o split_comma(SubSeq(s, MinOf(commas) + 1, Len(s)))

get(v, i) == IF i + 1 <= Len(v) THEN Some(v[i + 1]) ELSE None

is_whitespace(c) == c \in {" ", "\t", "\n", "\r", "\f"}

RECURSIVE split_whitespace(_)
split_whitespace(s) ==
    IF s = <<>> THEN <<>>
    ELSE IF is_whitespace(s[1]) THEN split_whitespace(Tail(s))
    ELSE LET ws == {i \in 1..Len(s) : is_whitespace(s[i])}
             end == IF ws = {} THEN Len(s) ELSE MinOf(ws) - 1
         IN  <<SubSeq(s, 1, end)>> \o split_whitespace(SubSeq(s, end + 1, Len(s)))

format_volume(s, d) == s \o <<":">> \o d

format_environment(var, bind) == var \o <<"=">> \o bind

format_link(name) == LinkPrefix \o name \o LinkSuffix

----------------------------------------------------------------------------
(* DockerCommandBuilder *)

new(image, shell) ==
    [volumes |-> <<>>, environment |-> <<>>, shell |-> shell,
     switches |-> <<>>, image |-> image]

add_volume(self, spec) == [self EXCEPT !.volumes = Append(@, spec)]

\* add_environment keeping an entry the builder already holds single
add_environment_dedup(self, spec) ==
    IF \E i \in 1..Len(self.environment) : self.environment[i] = spec
    THEN self
    ELSE [self EXCEPT !.environment = Append(@, spec)]

add_environment(self, spec) == [self EXCEPT !.environment = Append(@, spec)]

add_docker_switch(self, switch) == [self EXCEPT !.switches = Append(@, switch)]

RECURSIVE volume_switches_from(_, _)
volume_switches_from(volumes, i) ==
    IF i > Len(volumes) THEN <<>>
    ELSE <<SwitchV, format_volume(volumes[i][1], volumes[i][2])>>
             \o volume_switches_from(volumes, i + 1)

build_volume_switches(self) == volume_switches_from(self.volumes, 1)

RECURSIVE environment_switches_from(_, _)
environment_switches_from(environment, i) ==
    IF i > Len(environment) THEN <<>>
    ELSE <<SwitchE, format_environment(environment[i][1], environment[i][2])>>
             \o environment_switches_from(environment, i + 1)

build_environment_switches(self) == environment_switches_from(self.environment, 1)

RECURSIVE docker_switches_from(_, _)
docker_switches_from(switches, i) ==
    IF i > Len(switches) THEN <<>>
    ELSE split_whitespace(switches[i]) \o docker_switches_from(switches, i + 1)

\* build_docker_switches pushing each switch whole, not its pieces
build_docker_switches_unsplit(self) == self.switches

build_docker_switches(self) == docker_switches_from(self.switches, 1)

\* command_args with the environment switches built before the volume switches
command_args_environment_first(self, subshell_command) ==
    <<ArgRun, ArgRm, ArgIt>>
        \o build_environment_switches(self)
        \o build_volume_switches(self)
        \o build_docker_switches(self)
        \o <<self.image, self.shell, ArgC, subshell_command>>

\* The arguments run gives to Command::new("docker")
command_args(self, subshell_command) ==
    <<ArgRun, ArgRm, ArgIt>>
        \o build_volume_switches(self)
        \o build_environment_switches(self)
        \o build_docker_switches(self)
        \o <<self.image, self.shell, ArgC, subshell_command>>

----------------------------------------------------------------------------
(* The forwarders.  Each takes the builder by value and returns            *)
(* Result<DockerCommandBuilder>: result is "Ok" or the error, command is   *)
(* the builder as the call left it, calls are the calls it made to the     *)
(* dind collaborator, each with what it returned.                          *)

\* enable_forward_ssh_agent adding the environment entry before it has
\* looked for the socket's directory
enable_forward_ssh_agent_environment_first(command, environ) ==
    LET agent_socket == environ.SSH_AUTH_SOCK
    IN  IF ~agent_socket.some
        THEN [result |-> "VarError::NotPresent", command |-> command]
        ELSE LET dir == parent(agent_socket.val)
                 with_env == add_environment(command, <<SshAuthSockName, agent_socket.val>>)
             IN  IF dir.some
                 THEN [result |-> "Ok", command |-> add_volume(with_env, <<dir.val, dir.val>>)]
                 ELSE [result |-> "FlokiError::NoSshAuthSock", command |-> with_env]

\* enable_forward_ssh_agent mounting the socket, not its directory
enable_forward_ssh_agent_mounts_socket(command, environ) ==
    LET agent_socket == environ.SSH_AUTH_SOCK
    IN  IF ~agent_socket.some
        THEN [result |-> "VarError::NotPresent", command |-> command]
        ELSE LET dir == parent(agent_socket.val)
             IN  IF dir.some
                 THEN [result |-> "Ok",
                       command |-> add_volume(
                           add_environment(command, <<SshAuthSockName, agent_socket.val>>),
                           <<agent_socket.val, agent_socket.val>>)]
                 ELSE [result |-> "FlokiError::NoSshAuthSock", command |-> command]

enable_forward_ssh_agent(command, environ) ==
    LET agent_socket == environ.SSH_AUTH_SOCK
    IN  IF ~agent_socket.some
        THEN [result |-> "VarError::NotPresent", command |-> command]
        ELSE LET dir == parent(agent_socket.val)
             IN  IF dir.some
                 THEN [result |-> "Ok",
                       command |-> add_volume(
                           add_environment(command, <<SshAuthSockName, agent_socket.val>>),
                           <<dir.val, dir.val>>)]
                 ELSE [result |-> "FlokiError::NoSshAuthSock", command |-> command]

\* enable_forward_tmux_socket taking the whole of TMUX for the socket path
enable_forward_tmux_socket_whole_value(command, environ) ==
    LET tmux_env == environ.TMUX
    IN  IF ~tmux_env.some
        THEN [result |-> "VarError::NotPresent", command |-> command]
        ELSE LET dir == parent(tmux_env.val)
                 name == file_name(tmux_env.val)
             IN  IF dir.some /\ name.some
                 THEN [result |-> "Ok",
                       command |-> add_volume(
                           add_environment(command,
                               <<TmuxSocketName, RunTmuxSlash \o name.val>>),
                           <<dir.val, RunTmux>>)]
                 ELSE [result |-> "FlokiError::TmuxForwardError(bad filename)",
                       command |-> command]

enable_forward_tmux_socket(command, environ) ==
    LET tmux_env == environ.TMUX
    IN  IF ~tmux_env.some
        THEN [result |-> "VarError::NotPresent", command |-> command]
        ELSE LET tmux_params == split_comma(tmux_env.val)
                 path == get(tmux_params, 0)
             IN  IF path.some
                 THEN LET dir == parent(path.val)
                          name == file_name(path.val)
                      IN  IF dir.some /\ name.some
                          THEN [result |-> "Ok",
                                command |-> add_volume(
                                    add_environment(command,
                                        <<TmuxSocketName, RunTmuxSlash \o name.val>>),
                                    <<dir.val, RunTmux>>)]
                          ELSE [result |-> "FlokiError::TmuxForwardError(bad filename)",
                                command |-> command]
                 ELSE [result |-> "FlokiError::TmuxForwardError(no socket)",
                       command |-> command]

\* dind.launch(): the handle after a launch that ended with `outcome`
launch(handle, outcome) ==
    [handle EXCEPT !.state = IF outcome = "Ok" THEN "launched" ELSE "failed"]

\* enable_docker_in_docker adding the link switch before the launch
enable_docker_in_docker_link_before_launch(command, handle, preflight, launch_outcome) ==
    IF preflight /= "Ok"
    THEN [result |-> preflight, command |-> command, dind |-> handle,
          calls |-> <<<<"dind_preflight", preflight>>>>]
    ELSE IF launch_outcome /= "Ok"
    THEN [result |-> launch_outcome,
          command |-> add_docker_switch(command, format_link(handle.name)),
          dind |-> launch(handle, launch_outcome),
          calls |-> <<<<"dind_preflight", preflight>>, <<"launch", launch_outcome>>>>]
    ELSE [result |-> "Ok",
          command |-> add_environment(
              add_docker_switch(command, format_link(handle.name)),
              <<DockerHostName, DockerHostValue>>),
          dind |-> launch(handle, launch_outcome),
          calls |-> <<<<"dind_preflight", preflight>>, <<"launch", launch_outcome>>>>]

\* preflight and launch_outcome are what dind::dind_preflight() and
\* dind.launch() return: "Ok" or the collaborator's error
enable_docker_in_docker(command, handle, preflight, launch_outcome) ==
    IF preflight /= "Ok"
    THEN [result |-> preflight, command |-> command, dind |-> handle,
          calls |-> <<<<"dind_preflight", preflight>>>>]
    ELSE IF launch_outcome /= "Ok"
    THEN [result |-> launch_outcome, command |-> command,
          dind |-> launch(handle, launch_outcome),
          calls |-> <<<<"dind_preflight", preflight>>, <<"launch", launch_outcome>>>>]
    ELSE [result |-> "Ok",
          command |-> add_environment(
              add_docker_switch(command, format_link(handle.name)),
              <<DockerHostName, DockerHostValue>>),
          dind |-> launch(handle, launch_outcome),
          calls |-> <<<<"dind_preflight", preflight>>, <<"launch", launch_outcome>>>>]

----------------------------------------------------------------------------
(* Inputs *)

\* "/tmp/ssh-xyz/agent.sock"
SockXyz == <<"/", "t", "m", "p", "/", "s", "s", "h", "-", "x", "y", "z", "/", "a", "g", "e", "n", "t", ".", "s", "o", "c", "k">>
\* "/tmp/ssh-xyz/"
SockXyzSlash == <<"/", "t", "m", "p", "/", "s", "s", "h", "-", "x", "y", "z", "/">>
\* "/"
SockRoot == <<"/">>
\* "/run/tmux/agent.sock"
SockInRunTmux == <<"/", "r", "u", "n", "/", "t", "m", "u", "x", "/", "a", "g", "e", "n", "t", ".", "s", "o", "c", "k">>
\* "agent.sock"
SockRelative == <<"a", "g", "e", "n", "t", ".", "s", "o", "c", "k">>
\* "/tmp/tmux-1000/default,1234,0"
TmuxDefault == <<"/", "t", "m", "p", "/", "t", "m", "u", "x", "-", "1", "0", "0", "0", "/", "d", "e", "f", "a", "u", "l", "t", ",", "1", "2", "3", "4", ",", "0">>
\* "/,1234,0"
TmuxRoot == <<"/", ",", "1", "2", "3", "4", ",", "0">>
\* "/tmp/tmux-1000/..,1234,0"
TmuxDotDot == <<"/", "t", "m", "p", "/", "t", "m", "u", "x", "-", "1", "0", "0", "0", "/", ".", ".", ",", "1", "2", "3", "4", ",", "0">>
\* "default,1234,0"
TmuxRelative == <<"d", "e", "f", "a", "u", "l", "t", ",", "1", "2", "3", "4", ",", "0">>
\* "/tmp/tmux-1000/default"
TmuxNoComma == <<"/", "t", "m", "p", "/", "t", "m", "u", "x", "-", "1", "0", "0", "0", "/", "d", "e", "f", "a", "u", "l", "t">>
\* "ubuntu"
ImageUbuntu == <<"u", "b", "u", "n", "t", "u">>
\* "bash"
ShellBash == <<"b", "a", "s", "h">>
\* "make test"
CmdMakeTest == <<"m", "a", "k", "e", " ", "t", "e", "s", "t">>
\* "--a=1 --b=2"
FlagTwo == <<"-", "-", "a", "=", "1", " ", "-", "-", "b", "=", "2">>
\* "--c"
FlagOne == <<"-", "-", "c">>
\* " \t"
FlagBlank == <<" ", "\t">>
\* "/src"
VolSrc == <<"/", "s", "r", "c">>
\* "/mnt"
VolMnt == <<"/", "m", "n", "t">>
\* "/home"
VolHome == <<"/", "h", "o", "m", "e">>
\* "FOO"
EnvFoo == <<"F", "O", "O">>
\* "BAR"
EnvBar == <<"B", "A", "R">>
\* "1"
Val1 == <<"1">>
\* "dind-a"
DindName1 == <<"d", "i", "n", "d", "-", "a">>
\* "dind-b"
DindName2 == <<"d", "i", "n", "d", "-", "b">>

VolumeSpecs == {<<VolSrc, VolMnt>>, <<VolHome, VolHome>>}

EnvironmentSpecs == {<<EnvFoo, Val1>>, <<EnvBar, <<>>>>}

DockerSwitches == {FlagTwo, FlagOne, FlagBlank, <<>>}

SubshellCommands == {CmdMakeTest, <<>>}

\* what spawn() and wait() can come to
RunOutcomes ==
    {"FlokiError::FailedToLaunchDocker", "FlokiError::FailedToCompleteDockerCommand",
     "ExitStatus(0)", "ExitStatus(1)"}

\* the errors of the dind collaborator
DindErrors == {"DindError(1)", "DindError(2)"}

DindOutcomes == {"Ok"} \cup DindErrors

SshAuthSockValues ==
    {None, Some(SockXyz), Some(SockXyzSlash), Some(SockRoot), Some(SockInRunTmux),
     Some(SockRelative), Some(<<>>)}

TmuxValues ==
    {None, Some(TmuxDefault), Some(TmuxRoot), Some(TmuxDotDot), Some(TmuxRelative),
     Some(TmuxNoComma), Some(<<>>)}

MaxPathLen == 3

PathAlphabet == {"/", ".", "a", ","}

ShortStrings == UNION {[1..n -> PathAlphabet] : n \in 0..MaxPathLen}

MaxAdds == 4

MaxForwarders == 3

MaxCalls == 3

----------------------------------------------------------------------------
(* State *)

Call(op, result, input) ==
    [op |-> op, result |-> result, input |-> input, argv |-> <<>>,
     subshell_command |-> <<>>, calls |-> <<>>]

InitWith(image, shell, environ, name) ==
    /\ ctor = [image |-> image, shell |-> shell]
    /\ builder = new(image, shell)
    /\ env = environ
    /\ dind = [name |-> name, state |-> "unchecked"]
    /\ last = Call("new", "Ok", new(image, shell))
    /\ ran = FALSE
    /\ added = [volumes |-> 0, environment |-> 0, switches |-> 0]
    /\ applied = [ssh |-> 0, tmux |-> 0, dind |-> 0]

Init ==
    \E environ \in {[SSH_AUTH_SOCK |-> None, TMUX |-> None],
                    [SSH_AUTH_SOCK |-> Some(SockXyz), TMUX |-> Some(TmuxDefault)],
                    [SSH_AUTH_SOCK |-> Some(SockInRunTmux), TMUX |-> Some(TmuxDefault)]} :
        InitWith(ImageUbuntu, ShellBash, environ, DindName1)

InitBuild ==
    \E image \in {ImageUbuntu, <<>>}, shell \in {ShellBash, <<>>} :
        InitWith(image, shell, [SSH_AUTH_SOCK |-> None, TMUX |-> None], DindName1)

InitForward ==
    \E name \in {DindName1, DindName2} :
        \/ \E ssh \in SshAuthSockValues, tmux \in TmuxValues :
               InitWith(ImageUbuntu, ShellBash, [SSH_AUTH_SOCK |-> ssh, TMUX |-> tmux], name)
        \/ \E s \in ShortStrings :
               InitWith(ImageUbuntu, ShellBash, [SSH_AUTH_SOCK |-> Some(s), TMUX |-> Some(s)], name)

Calls ==
    added.volumes + added.environment + added.switches
        + applied.ssh + applied.tmux + applied.dind

----------------------------------------------------------------------------
(* Operations *)

AddVolume(spec) ==
    /\ builder' = add_volume(builder, spec)
    /\ last' = Call("add_volume", "Ok", builder)
    /\ added' = [added EXCEPT !.volumes = @ + 1]
    /\ UNCHANGED <<ctor, env, dind, ran, applied>>

AddEnvironment(spec) ==
    /\ builder' = add_environment(builder, spec)
    /\ last' = Call("add_environment", "Ok", builder)
    /\ added' = [added EXCEPT !.environment = @ + 1]
    /\ UNCHANGED <<ctor, env, dind, ran, applied>>

AddDockerSwitch(switch) ==
    /\ builder' = add_docker_switch(builder, switch)
    /\ last' = Call("add_docker_switch", "Ok", builder)
    /\ added' = [added EXCEPT !.switches = @ + 1]
    /\ UNCHANGED <<ctor, env, dind, ran, applied>>

\* run(&self, subshell_command): the builder is borrowed, not consumed
Run(subshell_command, outcome) ==
    /\ last' = [Call("run", outcome, builder) EXCEPT
                   !.argv = command_args(builder, subshell_command),
                   !.subshell_command = subshell_command,
                   !.calls = IF outcome = "FlokiError::FailedToLaunchDocker"
                             THEN <<<<"spawn", outcome>>>>
                             ELSE <<<<"spawn", "Ok">>, <<"wait", outcome>>>>]
    /\ ran' = TRUE
    /\ UNCHANGED <<builder, ctor, env, dind, added, applied>>

ForwardSshAgent ==
    LET r == enable_forward_ssh_agent(builder, env)
    IN  /\ builder' = r.command
        /\ last' = Call("enable_forward_ssh_agent", r.result, builder)
        /\ applied' = [applied EXCEPT !.ssh = IF r.result = "Ok" THEN @ + 1 ELSE @]
        /\ UNCHANGED <<ctor, env, dind, ran, added>>

ForwardTmuxSocket ==
    LET r == enable_forward_tmux_socket(builder, env)
    IN  /\ builder' = r.command
        /\ last' = Call("enable_forward_tmux_socket", r.result, builder)
        /\ applied' = [applied EXCEPT !.tmux = IF r.result = "Ok" THEN @ + 1 ELSE @]
        /\ UNCHANGED <<ctor, env, dind, ran, added>>

DockerInDocker(preflight, launch_outcome) ==
    LET r == enable_docker_in_docker(builder, dind, preflight, launch_outcome)
    IN  /\ builder' = r.command
        /\ dind' = r.dind
        /\ last' = [Call("enable_docker_in_docker", r.result, builder) EXCEPT
                       !.calls = r.calls]
        /\ applied' = [applied EXCEPT !.dind = IF r.result = "Ok" THEN @ + 1 ELSE @]
        /\ UNCHANGED <<ctor, env, ran, added>>

Next ==
    \/ Calls < MaxCalls /\ \E spec \in VolumeSpecs : AddVolume(spec)
    \/ Calls < MaxCalls /\ \E spec \in EnvironmentSpecs : AddEnvironment(spec)
    \/ Calls < MaxCalls /\ \E switch \in DockerSwitches : AddDockerSwitch(switch)
    \/ Calls < MaxCalls /\ ForwardSshAgent
    \/ Calls < MaxCalls /\ ForwardTmuxSocket
    \/ Calls < MaxCalls /\ \E p \in DindOutcomes, l \in DindOutcomes : DockerInDocker(p, l)
    \/ \E c \in SubshellCommands, o \in RunOutcomes : Run(c, o)

NextBuild ==
    \/ Calls < MaxAdds /\ \E spec \in VolumeSpecs : AddVolume(spec)
    \/ Calls < MaxAdds /\ \E spec \in EnvironmentSpecs : AddEnvironment(spec)
    \/ Calls < MaxAdds /\ \E switch \in DockerSwitches : AddDockerSwitch(switch)
    \/ \E c \in SubshellCommands, o \in RunOutcomes : Run(c, o)

NextForward ==
    \/ Calls < MaxForwarders /\ ForwardSshAgent
    \/ Calls < MaxForwarders /\ ForwardTmuxSocket
    \/ Calls < MaxForwarders
           /\ \E p \in DindOutcomes, l \in DindOutcomes : DockerInDocker(p, l)

Spec == Init /\ [][Next]_vars

SpecBuild == InitBuild /\ [][NextBuild]_vars

SpecForward == InitForward /\ [][NextForward]_vars

----------------------------------------------------------------------------
(* Properties *)

\* "/tmp/ssh-xyz"
DirXyz == <<"/", "t", "m", "p", "/", "s", "s", "h", "-", "x", "y", "z">>
\* "/tmp/tmux-1000"
DirTmux1000 == <<"/", "t", "m", "p", "/", "t", "m", "u", "x", "-", "1", "0", "0", "0">>
\* "/run/tmux/default"
RunTmuxDefault == <<"/", "r", "u", "n", "/", "t", "m", "u", "x", "/", "d", "e", "f", "a", "u", "l", "t">>
\* "--a=1"
FlagA == <<"-", "-", "a", "=", "1">>
\* "--b=2"
FlagB == <<"-", "-", "b", "=", "2">>
\* "--link"
ArgLink == <<"-", "-", "l", "i", "n", "k">>

Ran == last.op = "run"

\* the tokens each raw flag of DockerSwitches is to render as
ExpectedTokens(switch) ==
    IF switch = FlagTwo THEN <<FlagA, FlagB>>
    ELSE IF switch = FlagOne THEN <<FlagOne>>
    ELSE <<>>

RECURSIVE Flatten(_)
Flatten(ss) == IF ss = <<>> THEN <<>> ELSE Head(ss) \o Flatten(Tail(ss))

\* where the raw-flag tokens start in the arguments of a builder b
TokensFrom(b) == 3 + 2 * Len(b.volumes) + 2 * Len(b.environment)

\* C1: the arguments run passes are run, --rm, -it, then -v host:container
\* for each mount in insertion order, then -e name=value for each
\* environment entry in insertion order, then the tokens of each raw flag in
\* insertion order, then image, shell, -c and the command as one argument.
C1_ArgumentLayout ==
    Ran =>
        LET b == last.input
            a == last.argv
            nv == Len(b.volumes)
            ne == Len(b.environment)
            tokens == Flatten([i \in 1..Len(b.switches) |-> ExpectedTokens(b.switches[i])])
            n == Len(a)
        IN  /\ n = 3 + 2 * nv + 2 * ne + Len(tokens) + 4
            /\ a[1] = ArgRun /\ a[2] = ArgRm /\ a[3] = ArgIt
            /\ \A i \in 1..nv :
                   /\ a[3 + 2 * i - 1] = SwitchV
                   /\ a[3 + 2 * i] = b.volumes[i][1] \o <<":">> \o b.volumes[i][2]
            /\ \A j \in 1..ne :
                   /\ a[3 + 2 * nv + 2 * j - 1] = SwitchE
                   /\ a[3 + 2 * nv + 2 * j] =
                          b.environment[j][1] \o <<"=">> \o b.environment[j][2]
            /\ \A k \in 1..Len(tokens) : a[TokensFrom(b) + k] = tokens[k]
            /\ a[n - 3] = b.image /\ a[n - 2] = b.shell /\ a[n - 1] = ArgC
            /\ a[n] = last.subshell_command

\* run of "make test" on a builder with two mounts, an environment entry and
\* the raw flag "--a=1 --b=2"
C1_Witness ==
    /\ Ran
    /\ last.subshell_command = CmdMakeTest
    /\ last.input.image = ImageUbuntu /\ last.input.shell = ShellBash
    /\ Len(last.input.volumes) = 2 /\ last.input.volumes[1] /= last.input.volumes[2]
    /\ Len(last.input.environment) = 1
    /\ last.input.switches = <<FlagTwo>>

\* C2: run on a builder whose image or shell is the empty string is rejected
\* with an error before a child process is spawned: no spawn() succeeds and
\* run returns no exit status.
C2_EmptyImageOrShellRejected ==
    (Ran /\ (last.input.image = <<>> \/ last.input.shell = <<>>)) =>
        /\ \A i \in 1..Len(last.calls) : last.calls[i] /= <<"spawn", "Ok">>
        /\ last.result \notin {"ExitStatus(0)", "ExitStatus(1)"}

\* C3: once run has begun on a builder, no add_volume, add_environment,
\* add_docker_switch, forwarder or second run happens on it.
C3_RunIsTerminal == [][ran => (builder' = builder /\ last' = last)]_vars

HasNonWhitespace(s) == \E i \in 1..Len(s) : s[i] \notin {" ", "\t", "\n", "\r", "\f"}

HasWhitespace(s) == \E i \in 1..Len(s) : s[i] \in {" ", "\t", "\n", "\r", "\f"}

RECURSIVE WithoutWhitespace(_)
WithoutWhitespace(s) ==
    IF s = <<>> THEN <<>>
    ELSE IF HasWhitespace(<<Head(s)>>) THEN WithoutWhitespace(Tail(s))
    ELSE <<Head(s)>> \o WithoutWhitespace(Tail(s))

\* the raw-flag tokens among the arguments of the last run
RawFlagTokens == SubSeq(last.argv, TokensFrom(last.input) + 1, Len(last.argv) - 4)

\* C6 as stated: the number of raw-flag tokens among the arguments is never
\* smaller than the number of raw flags added.
C6_TokensNotFewerThanFlags == Ran => Len(RawFlagTokens) >= Len(last.input.switches)

\* C6 as amended: the raw flags are split on whitespace into independent
\* tokens kept in order; "--a=1 --b=2" renders as --a=1 and --b=2, a
\* non-empty raw flag without whitespace renders as exactly one token, an
\* empty or whitespace-only raw flag renders as none, so the tokens are never
\* fewer than the raw flags that hold a non-whitespace character.
C6_SplitOnWhitespace ==
    Ran =>
        LET sw == last.input.switches
            tokens == RawFlagTokens
        IN  /\ \A k \in 1..Len(tokens) : tokens[k] /= <<>> /\ ~HasWhitespace(tokens[k])
            /\ Flatten(tokens) = WithoutWhitespace(Flatten(sw))
            /\ Len(tokens) >= Cardinality({i \in 1..Len(sw) : HasNonWhitespace(sw[i])})
            /\ (sw = <<FlagTwo>> => tokens = <<FlagA, FlagB>>)
            /\ (Len(sw) = 1 /\ sw[1] /= <<>> /\ ~HasWhitespace(sw[1]) => tokens = sw)
            /\ (\A i \in 1..Len(sw) : ~HasNonWhitespace(sw[i])) => tokens = <<>>

\* run on a builder with the raw flags "--a=1 --b=2", "" and "--c"
C6_Witness ==
    /\ Ran
    /\ last.input.switches = <<FlagTwo, <<>>, FlagOne>>
    /\ RawFlagTokens = <<FlagA, FlagB, FlagOne>>

DindCall == last.op = "enable_docker_in_docker"

\* C4: enable_docker_in_docker calls the preflight, launches only after the
\* preflight succeeded, and appends only after the launch succeeded: a
\* failure of either is returned unchanged with the builder as it was; on
\* success the builder gains exactly the raw flag --link <name>:floki-docker
\* and the entry DOCKER_HOST=tcp://floki-docker:2375, nothing else changing.
C4_PreflightLaunchAppend ==
    DindCall =>
        LET c == last.calls
            in == last.input
        IN  /\ Len(c) >= 1 /\ c[1][1] = "dind_preflight"
            /\ \A i \in 2..Len(c) : c[i][1] = "launch" /\ i = 2 /\ c[1][2] = "Ok"
            /\ c[1][2] /= "Ok" => Len(c) = 1 /\ last.result = c[1][2] /\ builder = in
            /\ c[1][2] = "Ok" =>
                   /\ Len(c) = 2
                   /\ c[2][2] /= "Ok" => last.result = c[2][2] /\ builder = in
                   /\ c[2][2] = "Ok" =>
                          /\ last.result = "Ok"
                          /\ builder.switches =
                                 Append(in.switches, LinkPrefix \o dind.name \o LinkSuffix)
                          /\ dind.name = DindName1 =>
                                 split_whitespace(builder.switches[Len(builder.switches)])
                                     = <<ArgLink, DindName1 \o LinkSuffix>>
                          /\ builder.environment =
                                 Append(in.environment, <<DockerHostName, DockerHostValue>>)
                          /\ builder.volumes = in.volumes
                          /\ builder.image = in.image /\ builder.shell = in.shell

\* enable_docker_in_docker succeeding on a builder the tmux forwarder has
\* already added to
C4_Witness ==
    /\ DindCall /\ last.result = "Ok"
    /\ Len(last.input.volumes) = 1
    /\ Len(builder.switches) = 1 /\ Len(builder.environment) = 2

Count(e, seq) == Cardinality({i \in 1..Len(seq) : seq[i] = e})

SameCollection(s, t) ==
    /\ Len(s) = Len(t)
    /\ \A i \in 1..Len(s) : Count(s[i], s) = Count(s[i], t)

\* the builder after the SSH, tmux and docker-in-docker forwarders, in that order
SshTmuxDind ==
    enable_docker_in_docker(
        enable_forward_tmux_socket(
            enable_forward_ssh_agent(new(ctor.image, ctor.shell), env).command,
            env).command,
        dind, "Ok", "Ok").command

\* C5: when each of the three forwarders has been applied once, in whatever
\* order, no two entries share an environment variable name or a mount's
\* container path, and the builder holds the same mounts, environment
\* entries and raw flags as in any other order.
C5_AnyOrderDisjointKeys ==
    (applied.ssh = 1 /\ applied.tmux = 1 /\ applied.dind = 1) =>
        /\ \A i, j \in 1..Len(builder.environment) :
               i /= j => builder.environment[i][1] /= builder.environment[j][1]
        /\ \A i, j \in 1..Len(builder.volumes) :
               i /= j => builder.volumes[i][2] /= builder.volumes[j][2]
        /\ SameCollection(builder.volumes, SshTmuxDind.volumes)
        /\ SameCollection(builder.environment, SshTmuxDind.environment)
        /\ SameCollection(builder.switches, SshTmuxDind.switches)

SshCall == last.op = "enable_forward_ssh_agent"

TmuxCall == last.op = "enable_forward_tmux_socket"

\* C7: with SSH_AUTH_SOCK (TMUX) unset the SSH (tmux) forwarder fails with
\* the missing-variable error and the builder is as it was; and whenever a
\* socket forwarder fails it has added nothing, whenever it succeeds it has
\* added one mount and one environment entry.
C7_SocketForwardersAllOrNothing ==
    /\ (SshCall /\ ~env.SSH_AUTH_SOCK.some) =>
           last.result = "VarError::NotPresent" /\ builder = last.input
    /\ (TmuxCall /\ ~env.TMUX.some) =>
           last.result = "VarError::NotPresent" /\ builder = last.input
    /\ (SshCall \/ TmuxCall) =>
           /\ last.result /= "Ok" => builder = last.input
           /\ Len(builder.volumes) - Len(last.input.volumes)
                  = Len(builder.environment) - Len(last.input.environment)
           /\ last.result = "Ok" =>
                  Len(builder.volumes) = Len(last.input.volumes) + 1

\* the SSH forwarder failing for want of SSH_AUTH_SOCK on a builder the tmux
\* forwarder has already added to
C7_Witness ==
    /\ SshCall /\ ~env.SSH_AUTH_SOCK.some
    /\ last.result = "VarError::NotPresent"
    /\ Len(last.input.volumes) = 1 /\ Len(last.input.environment) = 1

RECURSIVE Fields(_, _)
Fields(s, sep) ==
    IF \A i \in 1..Len(s) : s[i] /= sep THEN <<s>>
    ELSE LET k == CHOOSE i \in 1..Len(s) : s[i] = sep /\ \A j \in 1..(i - 1) : s[j] /= sep
         IN  <<SubSeq(s, 1, k - 1)>> \o Fields(SubSeq(s, k + 1, Len(s)), sep)

\* the directory and file names of a path: what lies between its slashes,
\* but for the empty names and "."
RealSegments(path) ==
    SelectSeq(Fields(path, "/"), LAMBDA f : f /= <<>> /\ f /= <<".">>)

LeadingCurDir(path) == path /= <<>> /\ Head(Fields(path, "/")) = <<".">>

PathComponents(path) ==
    (IF LeadingCurDir(path) THEN <<<<".">>>> ELSE <<>>) \o RealSegments(path)

IsPrefix(d, s) == Len(d) <= Len(s) /\ SubSeq(s, 1, Len(d)) = d

\* d is the directory holding the last component of path: the prefix of
\* path that holds its other components, ending with no slash and no "/."
IsParentDir(d, path) ==
    /\ IsPrefix(d, path) /\ d /= path
    /\ (path /= <<>> /\ path[1] = "/") => d /= <<>>
    /\ PathComponents(path) /= <<>>
    /\ PathComponents(d) = SubSeq(PathComponents(path), 1, Len(PathComponents(path)) - 1)
    /\ \/ d \in {<<>>, <<"/">>, <<".">>}
       \/ d[Len(d)] /= "/" /\ Fields(d, "/")[Len(Fields(d, "/"))] /= <<".">>

\* C8: for SSH_AUTH_SOCK = P, if P has a parent directory D the SSH forwarder
\* returns the builder plus exactly the entry (SSH_AUTH_SOCK, P) and the
\* mount (D, D), D being the directory holding the socket and never P
\* itself; if P has none (P = /) it fails with NoSshAuthSock and adds
\* nothing.  /tmp/ssh-xyz/agent.sock gives the mount (/tmp/ssh-xyz, /tmp/ssh-xyz).
C8_SshAgentForward ==
    (SshCall /\ env.SSH_AUTH_SOCK.some) =>
        LET P == env.SSH_AUTH_SOCK.val
            in == last.input
        IN  IF PathComponents(P) /= <<>>
            THEN LET mount == builder.volumes[Len(builder.volumes)]
                 IN  /\ last.result = "Ok"
                     /\ builder.environment = Append(in.environment, <<SshAuthSockName, P>>)
                     /\ builder.volumes = Append(in.volumes, mount)
                     /\ mount[1] = mount[2]
                     /\ IsParentDir(mount[1], P)
                     /\ mount[1] /= P
                     /\ P = SockXyz => mount = <<DirXyz, DirXyz>>
                     /\ builder.switches = in.switches
                     /\ builder.image = in.image /\ builder.shell = in.shell
            ELSE /\ last.result = "FlokiError::NoSshAuthSock"
                 /\ builder = in
                 /\ P \notin {SockXyz, SockRelative}

\* the SSH forwarder applied under SSH_AUTH_SOCK=/tmp/ssh-xyz/agent.sock to a
\* builder that already holds a mount
C8_Witness ==
    /\ SshCall /\ env.SSH_AUTH_SOCK = Some(SockXyz) /\ last.result = "Ok"
    /\ Len(last.input.volumes) >= 1
    /\ builder.volumes[Len(builder.volumes)] = <<DirXyz, DirXyz>>

\* C9: for TMUX = S,pid,session only S is used; if S has a parent directory
\* D and a file name N the tmux forwarder returns the builder plus exactly
\* the mount (D, /run/tmux) and the entry TMUX_SOCKET=/run/tmux/N; else it
\* fails with the tmux forward error and adds nothing.
\* /tmp/tmux-1000/default,1234,0 gives the mount (/tmp/tmux-1000, /run/tmux)
\* and TMUX_SOCKET=/run/tmux/default.
C9_TmuxSocketForward ==
    (TmuxCall /\ env.TMUX.some) =>
        LET S == Head(Fields(env.TMUX.val, ","))
            segments == RealSegments(S)
            in == last.input
        IN  IF segments /= <<>> /\ segments[Len(segments)] /= <<".", ".">>
            THEN LET N == segments[Len(segments)]
                     mount == builder.volumes[Len(builder.volumes)]
                 IN  /\ last.result = "Ok"
                     /\ builder.volumes = Append(in.volumes, mount)
                     /\ mount[2] = RunTmux
                     /\ IsParentDir(mount[1], S)
                     /\ builder.environment =
                            Append(in.environment, <<TmuxSocketName, RunTmux \o <<"/">> \o N>>)
                     /\ env.TMUX.val = TmuxDefault =>
                            /\ mount = <<DirTmux1000, RunTmux>>
                            /\ builder.environment[Len(builder.environment)]
                                   = <<TmuxSocketName, RunTmuxDefault>>
                     /\ builder.switches = in.switches
                     /\ builder.image = in.image /\ builder.shell = in.shell
            ELSE /\ last.result = "FlokiError::TmuxForwardError(bad filename)"
                 /\ builder = in

\* the tmux forwarder applied under TMUX=/tmp/tmux-1000/default,1234,0 to a
\* builder that already holds a mount
C9_Witness ==
    /\ TmuxCall /\ env.TMUX = Some(TmuxDefault) /\ last.result = "Ok"
    /\ Len(last.input.volumes) >= 1
    /\ builder.environment[Len(builder.environment)] = <<TmuxSocketName, RunTmuxDefault>>

CountName(name, environment) ==
    Cardinality({i \in 1..Len(environment) : environment[i][1] = name})

\* C10: nothing is deduplicated: mounts, environment and raw flags each hold
\* as many entries as were added to them, by the caller or by a forwarder,
\* a forwarder applied n times has its entries in the builder n times, and
\* image and shell are those given to new.
C10_NothingDeduplicated ==
    /\ Len(builder.volumes) = added.volumes + applied.ssh + applied.tmux
    /\ Len(builder.environment) =
           added.environment + applied.ssh + applied.tmux + applied.dind
    /\ Len(builder.switches) = added.switches + applied.dind
    /\ builder.image = ctor.image /\ builder.shell = ctor.shell
    /\ CountName(SshAuthSockName, builder.environment) = applied.ssh
    /\ CountName(TmuxSocketName, builder.environment) = applied.tmux
    /\ Count(<<DockerHostName, DockerHostValue>>, builder.environment) = applied.dind
    /\ Count(LinkPrefix \o dind.name \o LinkSuffix, builder.switches) = applied.dind
    /\ env.SSH_AUTH_SOCK = Some(SockXyz) =>
           /\ Count(<<SshAuthSockName, SockXyz>>, builder.environment) = applied.ssh
           /\ Count(<<DirXyz, DirXyz>>, builder.volumes) = applied.ssh
    /\ env.SSH_AUTH_SOCK = Some(SockInRunTmux) =>
           Count(<<RunTmux, RunTmux>>, builder.volumes) = applied.ssh
    /\ env.TMUX = Some(TmuxDefault) =>
           /\ Count(<<TmuxSocketName, RunTmuxDefault>>, builder.environment) = applied.tmux
           /\ Count(<<DirTmux1000, RunTmux>>, builder.volumes) = applied.tmux

\* the SSH forwarder applied twice to a builder the caller has added a mount to
C10_Witness ==
    /\ applied.ssh = 2 /\ added.volumes = 1
    /\ env.SSH_AUTH_SOCK = Some(SockXyz)
    /\ Count(<<SshAuthSockName, SockXyz>>, builder.environment) = 2
    /\ Count(<<DirXyz, DirXyz>>, builder.volumes) = 2
    /\ Len(builder.volumes) = 3

====
